---------------------------- MODULE Spec2Model ----------------------------
(***************************************************************************)
(* Model of src/video_processor.py: class VideoProcessor.                  *)
(*                                                                         *)
(* Two specifications share the variables of this module:                  *)
(*   Spec        one run of process_video (writer creation, the schedule   *)
(*               computed by calculate_screen_display_time, the frame loop *)
(*               stepping display_text_on_screen, the release of handles); *)
(*   SpecLayout  one call of add_custom_text_to_center (the vertical       *)
(*               placement of the lines of a text).                        *)
(* Strings are sequences of one-character strings.  A frame written to    *)
(* the output is recorded by the set of caption indexes burnt into it:     *)
(* {i} for a frame annotated with caption i, {} for one passed through.    *)
(***************************************************************************)
EXTENDS Integers, Sequences, FiniteSets

(* ------------------------------ bounds -------------------------------- *)

\* longest caption of the enumerated inputs
MaxLen == 2

\* most captions in an enumerated text_array
MaxCaptions == 3

\* largest total_frame_count of the enumerated inputs
MaxFrames == 6

\* the stream may decode up to this many frames more than its metadata says
MaxExtra == 4

\* longest text given to add_custom_text_to_center
MaxTextLen == 4

\* largest height cv2.getTextSize measures for a line
MaxTextHeight == 3

\* largest image_height
MaxImageHeight == 4

\* largest line_spacing
MaxSpacing == 2

(* ------------------------------ inputs -------------------------------- *)

CaptionChars == {"a"}

SeqsUpTo(S, k) == UNION {[1..m -> S] : m \in 0..k}

CaptionStrings == SeqsUpTo(CaptionChars, MaxLen)

CaptionLists == SeqsUpTo(CaptionStrings, MaxCaptions)

\* the worked examples of the specification, and the __main__ shape of one
\* caption spanning several lines
ExampleInputs ==
    { [frames |-> 10,  captions |-> << <<"a","b">>, <<"a","b">> >>],
      [frames |-> 100, captions |-> << <<"c","a","t">>,
                                       <<"e","l","e","p","h","a","n","t">> >>],
      [frames |-> 7,   captions |-> << <<"a","\n","b">> >>] }

Inputs ==
    { [frames |-> f, captions |-> c] : f \in 0..MaxFrames, c \in CaptionLists }
    \cup ExampleInputs

(* ------------------------------ state --------------------------------- *)

VARIABLES
    text_array,                    \* self.text_array
    total_frame_count,             \* self.total_frame_count (stream metadata)
    stream_frames,                 \* frames self.cap can actually decode
    frames_read,                   \* frames cap.read() has returned so far   
    cap,                           \* self.cap: "open" | "released"
    out,                           \* self.out: "none" | "open" | "released"
    written,                       \* frames given to self.out.write, in order
    text_display_timer_on_screen,  \* dict index -> frame count
    display_counter,               \* self.display_counter
    display_index,                 \* self.display_index
    pc,                            \* position in process_video
    err,                           \* exception that left process_video
    text,                          \* add_custom_text_to_center: text
    image_height,                  \*   image_height
    line_spacing,                  \*   line_spacing
    text_size,                     \*   cv2.getTextSize heights, per line
    lines,                         \*   lines
    y_position2,                   \*   twice y_position (a float k or k + 0.5)
    line_no,                       \*   lines already drawn by the for loop
    drawn,                         \*   y of the position given to cv2.putText
    lpc                            \*   position in add_custom_text_to_center

procVars == <<text_array, total_frame_count, stream_frames, frames_read, cap,
              out, written, text_display_timer_on_screen, display_counter,
              display_index, pc, err>>

layoutVars == <<text, image_height, line_spacing, text_size, lines,
                y_position2, line_no, drawn, lpc>>

vars == <<procVars, layoutVars>>

(* --------------------- calculate_screen_display_time ------------------ *)

\* len(string)
StrLen(string) == Len(string)

RECURSIVE SumLenFrom(_, _)
SumLenFrom(list, i) ==
    IF i > Len(list) THEN 0 ELSE StrLen(list[i]) + SumLenFrom(list, i + 1)

\* sum(len(string) for string in self.text_array)
TotalLength(list) == SumLenFrom(list, 1)

\* self.total_frame_count // total_length, for total_length > 0
QuoteDisplayCount(frames, total_length) == frames \div total_length

\* (self.total_frame_count % total_length) // len(self.text_array)
DisplayReminderPerQuote(frames, total_length, n) ==
    (frames % total_length) \div n

UnusedFramesNoReminder(frames, total_length, n) ==
    frames - (QuoteDisplayCount(frames, total_length) * total_length)

\* total_frame_count - (quote_display_count * total_length
\*                      + display_reminder_per_quote * len(text_array))
UnusedFrames(frames, total_length, n) ==
    frames - ((QuoteDisplayCount(frames, total_length) * total_length)
              + (DisplayReminderPerQuote(frames, total_length, n) * n))

ScheduleEntryNoReminder(string, quote_display_count, display_reminder_per_quote) ==
    StrLen(string) * quote_display_count

\* (len(string) * quote_display_count) + display_reminder_per_quote
ScheduleEntry(string, quote_display_count, display_reminder_per_quote) ==
    (StrLen(string) * quote_display_count) + display_reminder_per_quote

\* the dict comprehension over enumerate(self.text_array): keys 0 .. n-1
InitialSchedule(frames, list) ==
    LET total_length == TotalLength(list)
        n == Len(list)
    IN  [index \in 0..(n - 1) |->
            ScheduleEntry(list[index + 1],
                          QuoteDisplayCount(frames, total_length),
                          DisplayReminderPerQuote(frames, total_length, n))]

RECURSIVE MaxScanLast(_, _, _, _)
MaxScanLast(d, n, i, best) ==
    IF i >= n THEN best
    ELSE MaxScanLast(d, n, i + 1, IF d[i] >= d[best] THEN i ELSE best)

MaxValueKeyLast(d, n) == MaxScanLast(d, n, 1, 0)

\* max() walks the keys in insertion order and replaces its candidate only
\* by a key whose value is strictly greater
RECURSIVE MaxScan(_, _, _, _)
MaxScan(d, n, i, best) ==
    IF i >= n THEN best
    ELSE MaxScan(d, n, i + 1, IF d[i] > d[best] THEN i ELSE best)

\* max(self.text_display_timer_on_screen, key=self.text_display_timer_on_screen.get)
MaxValueKey(d, n) == MaxScan(d, n, 1, 0)

\* the schedule after the unused frames went to max_value_key
FinalSchedule(frames, list) ==
    LET d == InitialSchedule(frames, list)
        n == Len(list)
        max_value_key == MaxValueKey(d, n)
    IN  [d EXCEPT ![max_value_key] =
            d[max_value_key] + UnusedFrames(frames, TotalLength(list), n)]

EmptyDict == [index \in {} |-> 0]

(* ------------------------ display_text_on_screen ---------------------- *)

ShouldDisplayOneEarly(counter, limit) == counter + 1 < limit

\* self.display_counter < self.text_display_timer_on_screen[self.display_index]
ShouldDisplay(counter, limit) == counter < limit

NextDisplayIndexWrap(index, n) == (index + 1) % n

\* self.display_index + 1 if self.display_index < len(self.text_array)
\*                        else len(self.text_array)
NextDisplayIndex(index, n) == IF index < n THEN index + 1 ELSE n

(* ----------------------------- process_video -------------------------- *)

ProcInit ==
    /\ \E inp \in Inputs :
          /\ text_array = inp.captions
          /\ total_frame_count = inp.frames
    /\ stream_frames \in 0..(total_frame_count + MaxExtra)
    /\ frames_read = 0
    /\ cap = "open"
    /\ out = "none"
    /\ written = <<>>
    /\ text_display_timer_on_screen = EmptyDict
    /\ display_counter = 0
    /\ display_index = 0
    /\ pc = "constructed"
    /\ err = "none"

LayoutIdle ==
    /\ text = <<>>
    /\ image_height = 0
    /\ line_spacing = 0
    /\ text_size = EmptyDict
    /\ lines = <<>>
    /\ y_position2 = 0
    /\ line_no = 0
    /\ drawn = <<>>
    /\ lpc = "idle"

Init == ProcInit /\ LayoutIdle

\* process_video up to the loop, total_length > 0: the writer is created and
\* the schedule computed
CalculateScreenDisplayTime ==
    /\ pc = "constructed"
    /\ TotalLength(text_array) # 0
    /\ out' = "open"
    /\ text_display_timer_on_screen' = FinalSchedule(total_frame_count, text_array)
    /\ pc' = "loop"
    /\ UNCHANGED <<text_array, total_frame_count, stream_frames, frames_read,
                   cap, written, display_counter, display_index, err>>
    /\ UNCHANGED layoutVars

CalculateGuardedZeroLength ==
    /\ pc = "constructed"
    /\ TotalLength(text_array) = 0
    /\ out' = "open"
    /\ pc' = "loop"
    /\ UNCHANGED <<text_array, total_frame_count, stream_frames, frames_read,
                   cap, written, text_display_timer_on_screen, display_counter,
                   display_index, err>>
    /\ UNCHANGED layoutVars

\* process_video up to the loop, total_length = 0: the writer is created and
\* the floor division of line 95 raises; nothing catches it
CalculateDivisionError ==
    /\ pc = "constructed"
    /\ TotalLength(text_array) = 0
    /\ out' = "open"
    /\ pc' = "raised"
    /\ err' = "ZeroDivisionError"
    /\ UNCHANGED <<text_array, total_frame_count, stream_frames, frames_read,
                   cap, written, text_display_timer_on_screen, display_counter,
                   display_index>>
    /\ UNCHANGED layoutVars

FrameAvailable == pc = "loop" /\ frames_read < stream_frames

\* one iteration: read, resize, display_text_on_screen draws the caption
ReadFrameDisplayText ==
    /\ FrameAvailable
    /\ display_index \in DOMAIN text_display_timer_on_screen
    /\ ShouldDisplay(display_counter, text_display_timer_on_screen[display_index])
    /\ frames_read' = frames_read + 1
    /\ written' = Append(written, {display_index})
    /\ display_counter' = display_counter + 1
    /\ UNCHANGED <<text_array, total_frame_count, stream_frames, cap, out,
                   text_display_timer_on_screen, display_index, pc, err>>
    /\ UNCHANGED layoutVars

\* one iteration: read, resize, display_text_on_screen takes the else branch
ReadFramePassThrough ==
    /\ FrameAvailable
    /\ display_index \in DOMAIN text_display_timer_on_screen
    /\ ~ShouldDisplay(display_counter, text_display_timer_on_screen[display_index])
    /\ frames_read' = frames_read + 1
    /\ written' = Append(written, {})
    /\ display_counter' = 0
    /\ display_index' = NextDisplayIndex(display_index, Len(text_array))
    /\ UNCHANGED <<text_array, total_frame_count, stream_frames, cap, out,
                   text_display_timer_on_screen, pc, err>>
    /\ UNCHANGED layoutVars

\* one iteration: read, resize, and the dict lookup of line 121 raises
\* KeyError because display_index is not a key; nothing catches it
ReadFrameKeyError ==
    /\ FrameAvailable
    /\ display_index \notin DOMAIN text_display_timer_on_screen
    /\ frames_read' = frames_read + 1
    /\ pc' = "raised"
    /\ err' = "KeyError"
    /\ UNCHANGED <<text_array, total_frame_count, stream_frames, cap, out,
                   written, text_display_timer_on_screen, display_counter,
                   display_index>>
    /\ UNCHANGED layoutVars

\* cap.read() returns ret = False: break, release both handles, return
EndOfStream ==
    /\ pc = "loop"
    /\ frames_read = stream_frames
    /\ cap' = "released"
    /\ out' = "released"
    /\ pc' = "returned"
    /\ UNCHANGED <<text_array, total_frame_count, stream_frames, frames_read,
                   written, text_display_timer_on_screen, display_counter,
                   display_index, err>>
    /\ UNCHANGED layoutVars

Next ==
    \/ CalculateScreenDisplayTime
    \/ CalculateDivisionError
    \/ ReadFrameDisplayText
    \/ ReadFramePassThrough
    \/ ReadFrameKeyError
    \/ EndOfStream

Spec == Init /\ [][Next]_vars

(* ------------------------ add_custom_text_to_center ------------------- *)

TextChars == {"a", "\n"}

Texts == SeqsUpTo(TextChars, MaxTextLen)

RECURSIVE SplitFrom(_, _, _)
SplitFrom(string, i, current) ==
    IF i > Len(string) THEN <<current>>
    ELSE IF string[i] = "\n"
         THEN <<current>> \o SplitFrom(string, i + 1, <<>>)
         ELSE SplitFrom(string, i + 1, Append(current, string[i]))

\* text.split("\n"): always at least one line
Split(string) == SplitFrom(string, 1, <<>>)

LinesOf(string) == {Split(string)[k] : k \in 1..Len(Split(string))}

\* cv2.getTextSize(line, font, font_scale, thickness)[0][1]
TextHeight(line) == text_size[line]

RECURSIVE SumHeightsFrom(_, _)
SumHeightsFrom(ls, k) ==
    IF k > Len(ls) THEN 0 ELSE TextHeight(ls[k]) + SumHeightsFrom(ls, k + 1)

\* sum([cv2.getTextSize(line, ...)[0][1] for line in lines])
SumHeights(ls) == SumHeightsFrom(ls, 1)

IntOfHalvesFloor(x2) == x2 \div 2

\* int(x) for the float x = x2 / 2: truncation toward zero
IntOfHalves(x2) == IF x2 >= 0 THEN x2 \div 2 ELSE -((-x2) \div 2)

\* twice the value of lines 65-68: int((image_height + sum) / 2) is an int,
\* (height(lines[0]) + line_spacing) * len(lines) / 2 is a true division
YPosition2(ls, height, spacing) ==
    2 * IntOfHalves(height + SumHeights(ls))
    - (TextHeight(ls[1]) + spacing) * Len(ls)

ProcIdle ==
    /\ text_array = <<>>
    /\ total_frame_count = 0
    /\ stream_frames = 0
    /\ frames_read = 0
    /\ cap = "open"
    /\ out = "none"
    /\ written = <<>>
    /\ text_display_timer_on_screen = EmptyDict
    /\ display_counter = 0
    /\ display_index = 0
    /\ pc = "idle"
    /\ err = "none"

LayoutInit ==
    /\ text \in Texts
    /\ image_height \in 0..MaxImageHeight
    /\ line_spacing \in 0..MaxSpacing
    /\ text_size \in [LinesOf(text) -> 0..MaxTextHeight]
    /\ lines = <<>>
    /\ y_position2 = 0
    /\ line_no = 0
    /\ drawn = <<>>
    /\ lpc = "called"

\* lines 62-68: split the text and compute the starting height
SplitAndStart ==
    /\ lpc = "called"
    /\ lines' = Split(text)
    /\ y_position2' = YPosition2(Split(text), image_height, line_spacing)
    /\ lpc' = "loop"
    /\ UNCHANGED <<text, image_height, line_spacing, text_size, line_no, drawn>>
    /\ UNCHANGED procVars

\* lines 71-85: one iteration of the for loop; both putText calls get the
\* same position, whose y is int(y_position)
DrawLine ==
    /\ lpc = "loop"
    /\ line_no < Len(lines)
    /\ drawn' = Append(drawn, IntOfHalves(y_position2))
    /\ y_position2' = y_position2 + 2 * (TextHeight(lines[line_no + 1]) + line_spacing)
    /\ line_no' = line_no + 1
    /\ UNCHANGED <<text, image_height, line_spacing, text_size, lines, lpc>>
    /\ UNCHANGED procVars

\* line 87
ReturnFrame ==
    /\ lpc = "loop"
    /\ line_no = Len(lines)
    /\ lpc' = "returned"
    /\ UNCHANGED <<text, image_height, line_spacing, text_size, lines,
                   y_position2, line_no, drawn>>
    /\ UNCHANGED procVars

NextLayout ==
    \/ SplitAndStart
    \/ DrawLine
    \/ ReturnFrame

InitLayout == ProcIdle /\ LayoutInit

SpecLayout == InitLayout /\ [][NextLayout]_vars

(* ------------------- properties of the process_video run -------------- *)

captionCount == Len(text_array)

\* the schedule has been computed (line 150 returned)
Scheduled == pc \in {"loop", "returned"} \/ (pc = "raised" /\ err = "KeyError")

RECURSIVE RefSumTo(_, _)
RefSumTo(f, k) == IF k < 0 THEN 0 ELSE f[k] + RefSumTo(f, k - 1)

\* sum of the values of a dict with keys 0 .. n-1
RefDictSum(d, n) == RefSumTo(d, n - 1)

RefLens == [i \in 0..(captionCount - 1) |-> Len(text_array[i + 1])]

RefTotalLength == RefDictSum(RefLens, captionCount)

\* C1: for totalFrames >= captionCount and a non-empty list of non-empty
\* captions, the values of the computed schedule sum to exactly totalFrames.
C1_ScheduleSum ==
    ( /\ Scheduled
      /\ captionCount >= 1
      /\ total_frame_count >= captionCount
      /\ \A i \in 0..(captionCount - 1) : RefLens[i] > 0 )
    => RefDictSum(text_display_timer_on_screen, captionCount) = total_frame_count

C1_Witness ==
    /\ pc = "loop"
    /\ captionCount = 3
    /\ total_frame_count >= captionCount
    /\ \A i \in 0..(captionCount - 1) : RefLens[i] > 0
    /\ (total_frame_count % RefTotalLength) % captionCount > 0
    /\ RefDictSum(text_display_timer_on_screen, captionCount) = total_frame_count

\* C2 as stated: whatever totalFrames and the positions, a longer caption
\* never gets fewer frames than a shorter one in the final schedule.
C2_Proportionality ==
    Scheduled =>
        \A i, j \in 0..(captionCount - 1) :
            RefLens[i] > RefLens[j]
            => text_display_timer_on_screen[i] >= text_display_timer_on_screen[j]

\* the one case in which the shorter caption b gets more: fewer frames than
\* characters, b first in the list, and frames left over after the equal share
C2_Exception(j) ==
    /\ total_frame_count < RefTotalLength
    /\ j = 0
    /\ total_frame_count % captionCount > 0

\* C2 amended: a longer caption never gets fewer frames than a shorter one,
\* except when totalFrames is below the total caption length, the shorter
\* caption is the first of the list and frames are left over; then the
\* shorter caption gets strictly more.
C2_ProportionalityAmended ==
    Scheduled =>
        \A i, j \in 0..(captionCount - 1) :
            RefLens[i] > RefLens[j]
            => IF C2_Exception(j)
               THEN text_display_timer_on_screen[i] < text_display_timer_on_screen[j]
               ELSE text_display_timer_on_screen[i] >= text_display_timer_on_screen[j]

C2_Witness ==
    /\ pc = "loop"
    /\ captionCount = 3
    /\ total_frame_count < RefTotalLength
    /\ total_frame_count % captionCount > 0
    /\ RefLens[0] > RefLens[1]
    /\ RefLens[2] > RefLens[1]
    /\ text_display_timer_on_screen[0] > text_display_timer_on_screen[2]
    /\ text_display_timer_on_screen[2] = text_display_timer_on_screen[1]

\* C3: once display_index has reached captionCount, a further call of
\* display_text_on_screen returns the frame unannotated and completes
\* normally, so the frame is written plain and the loop goes on.
C3_TerminalPassThrough ==
    [][ ( /\ pc = "loop"
          /\ display_index = captionCount
          /\ frames_read' = frames_read + 1 )
        => ( /\ written' = Append(written, {})
             /\ err' = "none"
             /\ pc' = "loop" ) ]_vars

\* C4: display_index stays within 0 .. captionCount and never decreases.
C4_IndexInRange ==
    /\ [](0 <= display_index /\ display_index <= captionCount)
    /\ [][display_index' >= display_index]_vars

C4_Witness ==
    /\ pc = "loop"
    /\ captionCount >= 2
    /\ display_index = captionCount
    /\ frames_read < stream_frames

\* C5: when process_video has stopped, by returning or by an error leaving
\* it, both the capture handle and the writer handle have been released.
C5_ReleasedOnEveryExit ==
    pc \in {"returned", "raised"} => (cap = "released" /\ out = "released")

\* C6: when the caption lengths sum to 0, the schedule computation fails
\* with a division error, the schedule stays empty and no frame has been
\* read or written.
C6_ZeroLengthFails ==
    (pc # "constructed" /\ RefTotalLength = 0)
    => ( /\ pc = "raised"
         /\ err = "ZeroDivisionError"
         /\ text_display_timer_on_screen = EmptyDict
         /\ frames_read = 0
         /\ written = <<>> )

C6_Witness ==
    /\ pc = "raised"
    /\ err = "ZeroDivisionError"
    /\ captionCount >= 2
    /\ total_frame_count > 0
    /\ stream_frames > 0

RefBase == total_frame_count \div RefTotalLength

RefRem == (total_frame_count % RefTotalLength) \div captionCount

RefEntries ==
    LET base == RefBase
        rem == RefRem
    IN  [i \in 0..(captionCount - 1) |-> Len(text_array[i + 1]) * base + rem]

\* the lowest index among the entries of e holding the maximum
RefMaxIndex(e) ==
    CHOOSE k \in 0..(captionCount - 1) :
        /\ \A i \in 0..(captionCount - 1) : e[i] <= e[k]
        /\ \A i \in 0..(k - 1) : e[i] < e[k]

RefAllocation ==
    LET e == RefEntries
        k == RefMaxIndex(e)
        unused == total_frame_count - RefDictSum(e, captionCount)
    IN  [i \in 0..(captionCount - 1) |-> IF i = k THEN e[i] + unused ELSE e[i]]

\* C7: the computed schedule is the reference allocation: len * base + rem
\* for every entry, the unused frames added to the lowest index among the
\* maximal entries; 10 frames over ["ab","ab"] give {0:5, 1:5} and 100 frames
\* over ["cat","elephant"] give {0:27, 1:73}.
C7_ReferenceAllocation ==
    Scheduled =>
        /\ text_display_timer_on_screen = RefAllocation
        /\ (total_frame_count = 10 /\ text_array = << <<"a","b">>, <<"a","b">> >>)
           => (text_display_timer_on_screen[0] = 5 /\ text_display_timer_on_screen[1] = 5)
        /\ (total_frame_count = 100 /\ Len(text_array[1]) = 3 /\ captionCount = 2
            /\ Len(text_array[2]) = 8)
           => (text_display_timer_on_screen[0] = 27 /\ text_display_timer_on_screen[1] = 73)

C7_Witness ==
    /\ pc = "loop"
    /\ captionCount = 3
    /\ RefEntries[0] < RefEntries[1]
    /\ RefEntries[1] = RefEntries[2]
    /\ text_display_timer_on_screen[1] > text_display_timer_on_screen[2]
    /\ text_display_timer_on_screen[2] > text_display_timer_on_screen[0]

RECURSIVE RefTiling(_, _)
RefTiling(d, i) ==
    IF i >= captionCount THEN <<>>
    ELSE [k \in 1..d[i] |-> {i}] \o RefTiling(d, i + 1)

\* C8: when the stream decodes exactly total_frame_count frames, caption i
\* is drawn on exactly schedule[i] consecutive frames, in list order, and no
\* frame of the scheduled spans is written plain.
C8_CaptionsTileTheVideo ==
    (pc = "returned" /\ stream_frames = total_frame_count)
    => written = RefTiling(text_display_timer_on_screen, 0)

\* C9: while no more frames have been processed than the schedule sums to,
\* display_index < captionCount: the terminal index is not reached and the
\* schedule is never looked up with an index that is not one of its keys.
C9_ClampNeverExercised ==
    ( /\ Scheduled
      /\ frames_read <= RefDictSum(text_display_timer_on_screen, captionCount) )
    => ( /\ display_index < captionCount
         /\ display_index \in DOMAIN text_display_timer_on_screen
         /\ err = "none" )

C9_Witness ==
    /\ pc = "returned"
    /\ captionCount = 3
    /\ stream_frames = total_frame_count
    /\ frames_read = RefDictSum(text_display_timer_on_screen, captionCount)
    /\ display_index = captionCount - 1
    /\ display_counter > 0

(* --------------------- properties of the text layout ------------------ *)

lineCount == Len(lines)

RefHeight(k) == text_size[lines[k]]

RECURSIVE RefHeightsTo(_)
RefHeightsTo(k) == IF k < 1 THEN 0 ELSE RefHeight(k) + RefHeightsTo(k - 1)

\* C10 as stated: the first line is drawn at
\* floor((frameHeight + sum of heights) / 2) - floor((firstLineHeight + lineSpacing) * lineCount / 2)
\* and each following line at the previous line's position plus that line's
\* height plus lineSpacing.
C10_FloorInBothHalves ==
    lpc = "returned" =>
        /\ drawn[1] = ((image_height + RefHeightsTo(lineCount)) \div 2)
                      - (((RefHeight(1) + line_spacing) * lineCount) \div 2)
        /\ \A k \in 1..(lineCount - 1) :
              drawn[k + 1] = drawn[k] + RefHeight(k) + line_spacing

\* rounding toward zero of x2 / 2
RefTowardZero(x2) ==
    IF x2 % 2 = 0 THEN x2 \div 2
    ELSE IF x2 > 0 THEN (x2 - 1) \div 2 ELSE (x2 + 1) \div 2

\* twice the unrounded start: only the first half is floored
RefStart2 ==
    2 * ((image_height + RefHeightsTo(lineCount)) \div 2)
    - (RefHeight(1) + line_spacing) * lineCount

\* C10 amended: only the first half is floored; the second half
\* (firstLineHeight + lineSpacing) * lineCount / 2 is an exact division, so
\* the running position may end in .5.  Line k is drawn at that exact start
\* plus the heights and spacings of the lines before it, rounded toward zero.
C10_ExactSecondHalf ==
    lpc = "returned" =>
        /\ Len(drawn) = lineCount
        /\ \A k \in 1..lineCount :
              drawn[k] = RefTowardZero(RefStart2
                                       + 2 * (RefHeightsTo(k - 1) + (k - 1) * line_spacing))

C10_Witness ==
    /\ lpc = "returned"
    /\ lineCount = 3
    /\ y_position2 % 2 = 1
    /\ drawn[1] > 0
    /\ drawn[1] # ((image_height + RefHeightsTo(lineCount)) \div 2)
                  - (((RefHeight(1) + line_spacing) * lineCount) \div 2)

=============================================================================
